---- MODULE Spec2Model ----
(***************************************************************************)
(* Model of processing_logic.py: normalize, process_excel and read_pos_csv. *)
(* Text is a sequence of one-character strings.  A spreadsheet is a         *)
(* sequence of rows, ws[r] being row r (row 1 is the header).               *)
(***************************************************************************)
EXTENDS Integers, Sequences, FiniteSets, TLC

VARIABLES
    \* process_excel
    pc, csv_data, week_choice, template, ws, reg_col, ot_col, name_to_row,
    processed, n, last, writes, result, saved, raised,
    \* normalize
    s0, s, nkey0, nkey, edits,
    \* read_pos_csv
    cpc, file, idx, cutoff_index, df, returned

pe_vars == <<pc, csv_data, week_choice, template, ws, reg_col, ot_col, name_to_row,
             processed, n, last, writes, result, saved, raised>>
norm_vars == <<s0, s, nkey0, nkey, edits>>
csv_vars == <<cpc, file, idx, cutoff_index, df, returned>>
vars == <<pe_vars, norm_vars, csv_vars>>

(***************************** bounds **************************************)
MaxRecords == 3
MaxLen == 3
MaxEdits == 2
MaxCsvRows == 2

(***************************** characters **********************************)
UpperSeq == <<"A","B","C","D","E","F","G","H","I","J","K","L","M",
              "N","O","P","Q","R","S","T","U","V","W","X","Y","Z">>
LowerSeq == <<"a","b","c","d","e","f","g","h","i","j","k","l","m",
              "n","o","p","q","r","s","t","u","v","w","x","y","z">>
Digits == {"0","1","2","3","4","5","6","7","8","9"}
UpperLetters == {UpperSeq[i] : i \in 1..26}
LowerLetters == {LowerSeq[i] : i \in 1..26}
Whitespace == {" ", "\t"}

\* str.lower() on one character
LowerChar(c) ==
    IF c \in UpperLetters
    THEN LowerSeq[CHOOSE i \in 1..26 : UpperSeq[i] = c]
    ELSE c

\* str.lower()
Lower(t) == [i \in 1..Len(t) |-> LowerChar(t[i])]

RECURSIVE LStrip(_)
LStrip(t) == IF t # <<>> /\ Head(t) \in Whitespace THEN LStrip(Tail(t)) ELSE t

RECURSIVE RStrip(_)
RStrip(t) ==
    IF t # <<>> /\ t[Len(t)] \in Whitespace THEN RStrip(SubSeq(t, 1, Len(t) - 1)) ELSE t

\* str.strip()
Strip(t) == RStrip(LStrip(t))

\* re.sub(r'[^0-9a-z]', ' ', t)
SubNonAlnum(t) ==
    [i \in 1..Len(t) |-> IF t[i] \in Digits \cup LowerLetters THEN t[i] ELSE " "]

\* str.split(): the maximal runs of non-whitespace characters, in order
RECURSIVE SplitFrom(_, _, _)
SplitFrom(t, word, acc) ==
    IF t = <<>>
    THEN IF word = <<>> THEN acc ELSE Append(acc, word)
    ELSE IF Head(t) \in Whitespace
         THEN SplitFrom(Tail(t), <<>>, IF word = <<>> THEN acc ELSE Append(acc, word))
         ELSE SplitFrom(Tail(t), Append(word, Head(t)), acc)

Split(t) == SplitFrom(t, <<>>, <<>>)

\* ' '.join(words)
RECURSIVE Join(_)
Join(words) ==
    IF words = <<>> THEN <<>>
    ELSE IF Len(words) = 1 THEN Head(words)
    ELSE Head(words) \o <<" ">> \o Join(Tail(words))

\* a slip: the substituted text is returned without split/join
NormalizeNoCollapse(t) == SubNonAlnum(Lower(Strip(t)))

normalize(t) == Join(Split(SubNonAlnum(Lower(Strip(t)))))

(***************************** cell values *********************************)
\* a cell value: None, a str or a number
None == [t |-> "none", s |-> <<>>, v |-> 0]
Str(x) == [t |-> "str", s |-> x, v |-> 0]
Num(k) == [t |-> "num", s |-> <<>>, v |-> k]

\* Python truthiness of a cell value: None, '' and 0 are falsy
Truthy(val) == (val.t = "str" /\ val.s # <<>>) \/ (val.t = "num" /\ val.v # 0)

\* str(val) of a cell holding text
StrOf(val) == val.s

\* a pandas 'Work Hours' value: NaN or a number
NaN == [nan |-> TRUE, v |-> 0]
Hrs(k) == [nan |-> FALSE, v |-> k]

Min(a, b) == IF a <= b THEN a ELSE b
Max(a, b) == IF a >= b THEN a ELSE b

(***************************** names ***************************************)
HRHost == <<"H","-","R"," ","H","o","s","t">>
Online == <<"O","n","l","i","n","e">>
SCommonServer == <<"S","-","C","O","M","M","O","N"," ","S","e","r","v","e","r">>
SJohnnyServer == <<"S","-","J","o","h","n","n","y"," ","S","e","r","v","e","r">>

Al == <<"A","l">>
AlVar == <<" ","a","L">>
Bo == <<"B","o">>
Zed == <<"Z">>
OnlineVar == <<"o","n","L","I","N","E"," ">>
Blank == <<" ">>

\* the names and hours the records of a run are drawn from
RawNames == {Al, AlVar, Bo, Zed, OnlineVar, Blank}
HoursValues == {NaN, Hrs(0), Hrs(40), Hrs(45)}

(***************************** worksheets ***********************************)
Cols == {"B", "C", "S", "T", "V", "W"}
EmptyRow == [B |-> None, C |-> None, S |-> None, T |-> None, V |-> None, W |-> None,
             fill |-> "none"]
Row(b, c) == [EmptyRow EXCEPT !.B = b, !.C = c]
Header == Row(Str(<<"I","D">>), Str(<<"N","a","m","e">>))

\* templates on disk: the sheets a run may load
TplBasic == <<Header, Row(Num(1), Str(Al)), Row(Num(2), Str(Online)), EmptyRow>>
TplTail == <<Header, Row(Num(1), Str(Al)), Row(None, Str(Zed))>>
TplNoB == <<Header, Row(None, Str(Al)), Row(Num(0), None)>>
TplZeroB == <<Header, Row(Num(1), Str(Al)), Row(Num(0), Str(Zed))>>
TplDup == <<Header, Row(Num(1), Str(Al)), Row(Num(2), Str(AlVar))>>
TplEmpty == <<Header>>
Sheets == {TplBasic, TplTail, TplNoB, TplZeroB, TplDup, TplEmpty}
Templates == [status : {"ok"}, sheet : Sheets]
                \cup [status : {"missing", "corrupt"}, sheet : {TplEmpty}]

\* ws.max_row
MaxRow(sheet) == Len(sheet)

\* ws[f'{col}{r}'] = val ; a cell below max_row is created, with its row
SetCell(sheet, col, r, val) ==
    LET grown == [i \in 1..Max(Len(sheet), r) |->
                     IF i <= Len(sheet) THEN sheet[i] ELSE EmptyRow]
    IN  [grown EXCEPT ![r][col] = val]

\* ws.insert_rows(ins): the cells of the rows from ins on move down one row;
\* below max_row there is no cell to move
InsertRows(sheet, ins) ==
    IF ins > Len(sheet) THEN sheet
    ELSE SubSeq(sheet, 1, ins - 1) \o <<EmptyRow>> \o SubSeq(sheet, ins, Len(sheet))

\* the rows r in range(2, ws.max_row+1) with a truthy B value
BRows(sheet) == {r \in 2..MaxRow(sheet) : Truthy(sheet[r].B)}

SetMax(S) == CHOOSE x \in S : \A y \in S : y <= x

\* the loop building name_to_row, from row r on: a later row replaces an earlier one
RECURSIVE BuildNameToRow(_, _, _)
BuildNameToRow(sheet, r, map) ==
    IF r > MaxRow(sheet) THEN map
    ELSE LET val == sheet[r].C
             key == normalize(StrOf(val))
         IN  IF Truthy(val)
             THEN BuildNameToRow(sheet, r + 1,
                      [k \in DOMAIN map \cup {key} |-> IF k = key THEN r ELSE map[k]])
             ELSE BuildNameToRow(sheet, r + 1, map)

\* a slip: the placeholder names are used as typed
IgnoreNamesRaw == {HRHost, Online, SCommonServer, SJohnnyServer}

ignore_names_set ==
    {normalize(HRHost), normalize(Online), normalize(SCommonServer), normalize(SJohnnyServer)}

OtThreshold == 40

RegHours(hours) == Min(hours, OtThreshold)
OtHours(hours) == Max(hours - OtThreshold, 0)

\* a slip: the overtime is written as computed, 0 included
OtCellZero(ot_hours) == Num(ot_hours)

\* ot_hours or ''
OtCell(ot_hours) == IF ot_hours # 0 THEN Num(ot_hours) ELSE Str(<<>>)

\* a slip: every choice but "Week 1" is taken for week 2
WeekColsElse(week) == IF week = "Week 1" THEN <<"S", "T">> ELSE <<"V", "W">>

\* the week's target columns; <<>> for any other choice
WeekCols(week) ==
    IF week = "Week 1" THEN <<"S", "T">>
    ELSE IF week = "Week 2" THEN <<"V", "W">>
    ELSE <<>>

\* the except clauses: what a raised exception turns into
Failure(msg) == [ok |-> FALSE, msg |-> msg]
\* a slip: only the FileNotFoundError clause, anything else reaches the caller
ExceptFileNotFoundOnly(exc) ==
    IF exc = "FileNotFoundError"
    THEN [result |-> Failure("Template not found"), raised |-> "none"]
    ELSE [result |-> [ok |-> FALSE, msg |-> ""], raised |-> exc]

Except(exc) ==
    IF exc = "FileNotFoundError"
    THEN [result |-> Failure("Template not found"), raised |-> "none"]
    ELSE [result |-> Failure("Error processing"), raised |-> "none"]

Pending == [ok |-> FALSE, msg |-> ""]
NoRow == [name |-> <<>>, hours |-> NaN, kind |-> "none", row |-> 0]

(***************************** process_excel *******************************)
\* the call: the arguments are chosen, nothing has run
Init ==
    /\ pc = "start"
    /\ csv_data \in {"None", "empty", "rows"}
    /\ week_choice \in {"Week 1", "Week 2", "Week 3"}
    /\ template \in Templates
    /\ ws = <<>>
    /\ reg_col = ""
    /\ ot_col = ""
    /\ name_to_row = <<>>
    /\ processed = {}
    /\ n = 0
    /\ last = NoRow
    /\ writes = <<>>
    /\ result = Pending
    /\ saved = FALSE
    /\ raised = "none"
    /\ s0 = <<>>
    /\ s = <<>>
    /\ nkey0 = <<>>
    /\ nkey = <<>>
    /\ edits = 0
    /\ cpc = "off"
    /\ file = <<>>
    /\ idx = 0
    /\ cutoff_index = 0
    /\ df = <<>>
    /\ returned = <<>>

\* if csv_data is None or csv_data.empty: return False, ...
CheckData ==
    /\ pc = "start"
    /\ IF csv_data \in {"None", "empty"}
       THEN /\ result' = Failure("No valid CSV data provided")
            /\ pc' = "done"
       ELSE /\ pc' = "load"
            /\ UNCHANGED result
    /\ UNCHANGED <<csv_data, week_choice, template, ws, reg_col, ot_col, name_to_row,
                   processed, n, last, writes, saved, raised>>
    /\ UNCHANGED <<norm_vars, csv_vars>>

\* wb = openpyxl.load_workbook(template_path); ws = wb.active
LoadWorkbook ==
    /\ pc = "load"
    /\ IF template.status = "ok"
       THEN /\ ws' = template.sheet
            /\ pc' = "week"
            /\ UNCHANGED <<result, raised>>
       ELSE LET exc == IF template.status = "missing"
                       THEN "FileNotFoundError" ELSE "InvalidFileException"
            IN  /\ result' = Except(exc).result
                /\ raised' = Except(exc).raised
                /\ pc' = "done"
                /\ UNCHANGED ws
    /\ UNCHANGED <<csv_data, week_choice, template, reg_col, ot_col, name_to_row,
                   processed, n, last, writes, saved>>
    /\ UNCHANGED <<norm_vars, csv_vars>>

\* the week_choice if / elif / else
ResolveWeek ==
    /\ pc = "week"
    /\ IF WeekCols(week_choice) # <<>>
       THEN /\ reg_col' = WeekCols(week_choice)[1]
            /\ ot_col' = WeekCols(week_choice)[2]
            /\ pc' = "scan"
            /\ UNCHANGED result
       ELSE /\ result' = Failure("Invalid week choice")
            /\ pc' = "done"
            /\ UNCHANGED <<reg_col, ot_col>>
    /\ UNCHANGED <<csv_data, week_choice, template, ws, name_to_row,
                   processed, n, last, writes, saved, raised>>
    /\ UNCHANGED <<norm_vars, csv_vars>>

\* the scan of column C, and processed = set()
BuildLookup ==
    /\ pc = "scan"
    /\ name_to_row' = BuildNameToRow(ws, 2, <<>>)
    /\ processed' = {}
    /\ pc' = "loop"
    /\ UNCHANGED <<csv_data, week_choice, template, ws, reg_col, ot_col,
                   n, last, writes, result, saved, raised>>
    /\ UNCHANGED <<norm_vars, csv_vars>>

\* the row a matched record is written to
TargetRow(sheet, map, key) == map[key]

\* a slip: the row is inserted at the last B row, not below it
InsertAtLastB(sheet) == SetMax(BRows(sheet))

\* the row a new record is inserted at: below the last B-value row
InsertAt(sheet) == SetMax(BRows(sheet)) + 1

\* a slip: the raw name is remembered, not its key
SeenKeyRaw(raw_name) == raw_name

\* the key a record is remembered by in processed
SeenKey(raw_name) == normalize(raw_name)

\* one iteration of the loop over csv_data.iterrows()
ProcessRow(raw_name, hours) ==
    /\ pc = "loop"
    /\ n < MaxRecords
    /\ n' = n + 1
    /\ LET key == normalize(raw_name)
           reg_hours == RegHours(hours.v)
           ot_hours == OtHours(hours.v)
           rec(kind, r) == [name |-> raw_name, hours |-> hours, kind |-> kind, row |-> r]
           wr(kind, r) == [key |-> key, name |-> raw_name, hours |-> hours,
                           kind |-> kind, row |-> r]
       IN
       IF Strip(raw_name) = <<>> \/ hours.nan
       THEN /\ last' = rec("invalid", 0)
            /\ UNCHANGED <<ws, processed, writes, result, raised, pc>>
       ELSE IF key \in ignore_names_set
       THEN /\ last' = rec("ignored", 0)
            /\ UNCHANGED <<ws, processed, writes, result, raised, pc>>
       ELSE IF SeenKey(raw_name) \in processed
       THEN /\ last' = rec("duplicate", 0)
            /\ UNCHANGED <<ws, processed, writes, result, raised, pc>>
       ELSE /\ processed' = processed \cup {SeenKey(raw_name)}
            /\ IF key \in DOMAIN name_to_row
               THEN LET target == TargetRow(ws, name_to_row, key)
                    IN  /\ ws' = SetCell(SetCell(ws, reg_col, target, Num(reg_hours)),
                                         ot_col, target, OtCell(ot_hours))
                        /\ last' = rec("updated", target)
                        /\ writes' = Append(writes, wr("updated", target))
                        /\ UNCHANGED <<result, raised, pc>>
               ELSE IF BRows(ws) = {}
               THEN \* max() of an empty sequence
                    /\ result' = Except("ValueError").result
                    /\ raised' = Except("ValueError").raised
                    /\ pc' = "done"
                    /\ last' = rec("failed", 0)
                    /\ UNCHANGED <<ws, writes>>
               ELSE LET ins == InsertAt(ws)
                        moved == InsertRows(ws, ins)
                        named == SetCell(moved, "B", ins, Str(raw_name))
                        filled == [named EXCEPT ![ins].fill = "red"]
                    IN  /\ ws' = SetCell(SetCell(filled, reg_col, ins, Num(reg_hours)),
                                         ot_col, ins, OtCell(ot_hours))
                        /\ last' = rec("added", ins)
                        /\ writes' = Append(writes, wr("added", ins))
                        /\ UNCHANGED <<result, raised, pc>>
    /\ UNCHANGED <<csv_data, week_choice, template, reg_col, ot_col, name_to_row, saved>>
    /\ UNCHANGED <<norm_vars, csv_vars>>

\* wb.save(output_path); return True, ...
Save(outcome) ==
    /\ pc = "loop"
    /\ n >= 1
    /\ IF outcome = "ok"
       THEN /\ saved' = TRUE
            /\ result' = [ok |-> TRUE, msg |-> "Saved"]
            /\ UNCHANGED raised
       ELSE /\ result' = Except(outcome).result
            /\ raised' = Except(outcome).raised
            /\ UNCHANGED saved
    /\ pc' = "done"
    /\ UNCHANGED <<csv_data, week_choice, template, ws, reg_col, ot_col, name_to_row,
                   processed, n, last, writes>>
    /\ UNCHANGED <<norm_vars, csv_vars>>

SaveOutcomes == {"ok", "PermissionError"}

Next ==
    \/ CheckData
    \/ LoadWorkbook
    \/ ResolveWeek
    \/ BuildLookup
    \/ \E raw_name \in RawNames, hours \in HoursValues : ProcessRow(raw_name, hours)
    \/ \E outcome \in SaveOutcomes : Save(outcome)

Spec == Init /\ [][Next]_vars

(***************************** process_excel: properties *******************)
\* a step that is one iteration of the record loop
RowStep == pc = "loop" /\ n' = n + 1

\* the record of the last iteration passed the blank-name / missing-hours test
ValidRecord(rec) ==
    /\ \E i \in 1..Len(rec.name) : rec.name[i] \notin Whitespace
    /\ ~rec.hours.nan

\* the normalized placeholder names, spelled out
IgnoredKeys ==
    { <<"h"," ","r"," ","h","o","s","t">>,
      <<"o","n","l","i","n","e">>,
      <<"s"," ","c","o","m","m","o","n"," ","s","e","r","v","e","r">>,
      <<"s"," ","j","o","h","n","n","y"," ","s","e","r","v","e","r">> }

\* C1: in one run at most one write happens per distinct normalized name: a
\* record whose normalized name equals that of an earlier processed record
\* changes nothing, so the values written for a name are those of its first
\* record, also for case, space and punctuation variants of the name.
C1_OneWritePerName ==
    [][RowStep =>
         /\ (normalize(last'.name) \in {w.key : w \in {writes[i] : i \in 1..Len(writes)}}
                => ws' = ws /\ writes' = writes)
         /\ \A i, j \in 1..Len(writes') : writes'[i].key = writes'[j].key => i = j]_vars

\* a variant spelling of an already written name was skipped
C1_Witness ==
    /\ Len(writes) = 1
    /\ n = 2
    /\ ValidRecord(last)
    /\ last.name # writes[1].name
    /\ normalize(last.name) = writes[1].key

\* C2: a matched record is written into the row that holds that employee's
\* name in column C at the moment of the write, also after earlier unmatched
\* records of the run inserted rows.
C2_WriteHitsNameRow ==
    last.kind = "updated" =>
        /\ Truthy(ws[last.row].C)
        /\ normalize(StrOf(ws[last.row].C)) = normalize(last.name)

\* the rows from row 2 on that hold any value in column B
ValueRowsB(sheet) == {r \in 2..Len(sheet) : sheet[r].B # None}

\* the record of this step is unmatched, not ignored and first seen
FreshUnmatched(rec) ==
    /\ ValidRecord(rec)
    /\ normalize(rec.name) \notin IgnoredKeys
    /\ normalize(rec.name) \notin processed
    /\ normalize(rec.name) \notin DOMAIN name_to_row

\* the sheet after: one new row at ins with the raw name, the red fill and the
\* hours in the week's columns; the rows above as they were, the rows from ins
\* on one row lower
RowInsertedAt(ins, rec) ==
    /\ Len(ws') = Len(ws) + 1
    /\ \A r \in 1..(ins - 1) : ws'[r] = ws[r]
    /\ \A r \in ins..Len(ws) : ws'[r + 1] = ws[r]
    /\ ws'[ins].B = Str(rec.name)
    /\ ws'[ins].fill = "red"
    /\ ws'[ins].C = None
    /\ ws'[ins][reg_col] = Num(IF rec.hours.v > 40 THEN 40 ELSE rec.hours.v)
    /\ ws'[ins][ot_col] = IF rec.hours.v > 40 THEN Num(rec.hours.v - 40) ELSE Str(<<>>)

\* the rows inserted so far are consecutive and in input order
InsertedInOrder(sheet, log) ==
    LET added == SelectSeq(log, LAMBDA w : w.kind = "added")
    IN  \A k \in 1..Len(added) :
            /\ added[k].row = added[1].row + (k - 1)
            /\ sheet[added[1].row + (k - 1)].B = Str(added[k].name)
            /\ sheet[added[1].row + (k - 1)].fill = "red"

\* C3 as stated: every unmatched, non-ignored, first-seen record inserts one
\* row immediately below the last row from row 2 on that has a value in column B.
C3_AsStated ==
    [][(RowStep /\ FreshUnmatched(last')) =>
         /\ ValueRowsB(ws) # {}
         /\ RowInsertedAt(SetMax(ValueRowsB(ws)) + 1, last')]_vars

\* C3, amended: when some row from row 2 on has a truthy (non-empty, non-zero)
\* value in column B, an unmatched, non-ignored, first-seen record inserts one
\* row immediately below the last such row, with the raw name and the red fill
\* in column B and the hours in the week's columns; the rows above stay, the
\* rows below move down one, and the inserted rows of a run are consecutive in
\* input order.  When no row has such a value the run fails and nothing is
\* inserted.
C3_InsertBelowLastB ==
    [][(RowStep /\ FreshUnmatched(last')) =>
         IF \E r \in 2..Len(ws) : Truthy(ws[r].B)
         THEN /\ RowInsertedAt(
                    (CHOOSE r \in 2..Len(ws) :
                        /\ Truthy(ws[r].B)
                        /\ \A q \in (r + 1)..Len(ws) : ~Truthy(ws[q].B)) + 1,
                    last')
              /\ InsertedInOrder(ws', writes')
         ELSE ws' = ws /\ pc' = "done" /\ ~result'.ok]_vars

\* a second row was inserted, above a row of the template that moved down
C3_Witness ==
    /\ Len(SelectSeq(writes, LAMBDA w : w.kind = "added")) = 2
    /\ last.kind = "added"
    /\ last.row < Len(ws)
    /\ ws[last.row - 1].fill = "red"

\* C4: a record whose normalized name is in the ignore set never causes a
\* write: no row is updated and none is inserted, also when the template has
\* a row with that name in column C.
C4_IgnoredNeverWritten ==
    [][(RowStep /\ normalize(last'.name) \in IgnoredKeys) =>
         ws' = ws /\ writes' = writes /\ processed' = processed]_vars

\* an ignored name that the template holds in column C was met, with hours
C4_Witness ==
    /\ n >= 1
    /\ pc = "loop"
    /\ ~last.hours.nan
    /\ normalize(last.name) \in IgnoredKeys
    /\ \E r \in 2..Len(ws) : Truthy(ws[r].C) /\ normalize(StrOf(ws[r].C)) = normalize(last.name)

BadInput == csv_data \in {"None", "empty"} \/ week_choice \notin {"Week 1", "Week 2"}
ValidationMessages == {"No valid CSV data provided", "Invalid week choice"}

\* the week's columns, once resolved
WeekColumnsRight ==
    (pc \in {"scan", "loop"} \/ saved) =>
        /\ (week_choice = "Week 1" => reg_col = "S" /\ ot_col = "T")
        /\ (week_choice = "Week 2" => reg_col = "V" /\ ot_col = "W")
        /\ \A i \in 1..Len(writes) :
               \A c \in {"S", "T", "V", "W"} \ {reg_col, ot_col} :
                   ws[writes[i].row][c] = None

\* C5 as stated: a week other than "Week 1" / "Week 2", or an empty or missing
\* record set, returns failure with a validation message and writes no file.
C5_AsStated ==
    /\ (pc = "done" /\ BadInput) =>
           ~result.ok /\ result.msg \in ValidationMessages /\ ~saved
    /\ WeekColumnsRight

\* C5, amended: such a call returns failure and writes no file; the message
\* is the validation message when the record set is empty or missing, and
\* when the week is invalid and the template loaded (the template is loaded
\* before the week is looked at, so a template that fails to load is what
\* the message reports).  Week 1 resolves to S/T and Week 2 to V/W.
C5_ValidationFails ==
    /\ BadInput => ~saved
    /\ (pc = "done" /\ BadInput) => ~result.ok
    /\ (pc = "done" /\ csv_data \in {"None", "empty"}) =>
           result.msg = "No valid CSV data provided"
    /\ (pc = "done" /\ csv_data = "rows" /\ week_choice \notin {"Week 1", "Week 2"}) =>
           result.msg = IF template.status = "ok" THEN "Invalid week choice"
                        ELSE IF template.status = "missing" THEN "Template not found"
                        ELSE "Error processing"
    /\ WeekColumnsRight

\* an invalid week was refused after the template loaded
C5_Witness ==
    /\ pc = "done"
    /\ csv_data = "rows"
    /\ week_choice = "Week 3"
    /\ ws # <<>>
    /\ result = Failure("Invalid week choice")

\* the last record was valid, not ignored and has no row in column C, and no
\* row of the sheet has a truthy B value
FreshUnmatchedSeen ==
    /\ ValidRecord(last)
    /\ normalize(last.name) \notin IgnoredKeys
    /\ normalize(last.name) \notin DOMAIN name_to_row
    /\ \A i \in 1..Len(writes) : writes[i].key # normalize(last.name)
ValueRowsNone == \A r \in 2..Len(ws) : ~Truthy(ws[r].B)

\* C6: no exception reaches the caller: a failure of the load, the scan, a
\* write (an unmatched record when no row has a value in column B) or the save
\* ends the run with (False, message), and the workbook is saved only on the
\* path that returns (True, message).
C6_NoExceptionEscapes ==
    /\ raised = "none"
    /\ saved => pc = "done" /\ result.ok
    /\ (pc = "done" /\ ~saved) => ~result.ok /\ result.msg # ""
    /\ (pc = "done" /\ csv_data = "rows" /\ template.status # "ok") => ~result.ok
    /\ (n >= 1 /\ FreshUnmatchedSeen /\ ValueRowsNone) => pc = "done" /\ ~result.ok /\ ~saved

\* an unmatched record met a sheet without any B value
C6_Witness ==
    /\ pc = "done"
    /\ n >= 1
    /\ FreshUnmatchedSeen
    /\ ValueRowsNone
    /\ result = Failure("Error processing")

\* C7: a written record with hours h >= 0 puts min(h,40) in the regular cell
\* and h-40 in the overtime cell when h > 40, the empty string (not 0) when
\* h <= 40, for a matched row and for an inserted row; regular <= 40,
\* overtime >= 0 and regular + overtime = h.
C7_HoursSplit ==
    last.kind \in {"updated", "added"} =>
        LET h == last.hours.v
            reg == ws[last.row][reg_col]
            ot == ws[last.row][ot_col]
            otv == IF ot.t = "num" THEN ot.v ELSE 0
        IN  /\ h >= 0
            /\ reg = Num(IF h <= 40 THEN h ELSE 40)
            /\ ot = IF h > 40 THEN Num(h - 40) ELSE Str(<<>>)
            /\ reg.v <= 40
            /\ otv >= 0
            /\ reg.v + otv = h

\* both kinds of write happened in one run, one without and one with overtime
C7_Witness ==
    /\ Len(writes) = 2
    /\ writes[1].kind = "updated" /\ writes[1].hours = Hrs(40)
    /\ writes[2].kind = "added" /\ writes[2].hours = Hrs(45)
    /\ last.kind = "added"
    /\ ws[last.row][ot_col] = Num(5)
    /\ ws[writes[1].row][ot_col] = Str(<<>>)

(***************************** normalize ***********************************)
\* the characters the strings are built from
NormAlphabet == {"A", "a", "7", " ", "-"}
NonAlnum == {c \in NormAlphabet : c \notin Digits \cup LowerLetters \cup UpperLetters}

Strings(len) == UNION {[1..m -> NormAlphabet] : m \in 0..len}

UpperChar(c) ==
    IF c \in LowerLetters
    THEN UpperSeq[CHOOSE i \in 1..26 : LowerSeq[i] = c]
    ELSE c

InsertChar(t, i, c) == SubSeq(t, 1, i) \o <<c>> \o SubSeq(t, i + 1, Len(t))
RemoveChar(t, i) == SubSeq(t, 1, i - 1) \o SubSeq(t, i + 1, Len(t))

InitNorm ==
    /\ s0 \in Strings(MaxLen)
    /\ s = s0
    /\ nkey0 = normalize(s0)
    /\ nkey = normalize(s0)
    /\ edits = 0
    /\ pc = "off"
    /\ csv_data = "None"
    /\ week_choice = ""
    /\ template = [status |-> "missing", sheet |-> TplEmpty]
    /\ ws = <<>>
    /\ reg_col = ""
    /\ ot_col = ""
    /\ name_to_row = <<>>
    /\ processed = {}
    /\ n = 0
    /\ last = NoRow
    /\ writes = <<>>
    /\ result = Pending
    /\ saved = FALSE
    /\ raised = "none"
    /\ cpc = "off"
    /\ file = <<>>
    /\ idx = 0
    /\ cutoff_index = 0
    /\ df = <<>>
    /\ returned = <<>>

\* normalize is applied to the edited string
Edited(t) ==
    /\ edits < MaxEdits
    /\ edits' = edits + 1
    /\ s' = t
    /\ nkey' = normalize(t)
    /\ UNCHANGED <<s0, nkey0, pe_vars, csv_vars>>

\* the case of one letter changes
FlipCase ==
    \E i \in 1..Len(s) :
        /\ s[i] \in LowerLetters \cup UpperLetters
        /\ Edited([s EXCEPT ![i] = IF s[i] \in LowerLetters THEN UpperChar(s[i])
                                   ELSE LowerChar(s[i])])

\* a run of non-alphanumeric characters gets one character longer
GrowRun ==
    \E i \in 1..Len(s), c \in NonAlnum :
        /\ s[i] \in NonAlnum
        /\ Edited(InsertChar(s, i, c))

\* a run of non-alphanumeric characters gets one character shorter
ShrinkRun ==
    \E i \in 1..(Len(s) - 1) :
        /\ s[i] \in NonAlnum
        /\ s[i + 1] \in NonAlnum
        /\ Edited(RemoveChar(s, i))

\* one non-alphanumeric character is replaced by another
SwapSeparator ==
    \E i \in 1..Len(s), c \in NonAlnum :
        /\ s[i] \in NonAlnum
        /\ c # s[i]
        /\ Edited([s EXCEPT ![i] = c])

\* whitespace is added in front or behind
Pad ==
    \E c \in Whitespace, front \in BOOLEAN :
        Edited(IF front THEN <<c>> \o s ELSE Append(s, c))

\* leading or trailing whitespace is removed
Trim ==
    \E front \in BOOLEAN :
        /\ s # <<>>
        /\ (IF front THEN Head(s) ELSE s[Len(s)]) \in Whitespace
        /\ Edited(IF front THEN Tail(s) ELSE SubSeq(s, 1, Len(s) - 1))

NextNorm == FlipCase \/ GrowRun \/ ShrinkRun \/ SwapSeparator \/ Pad \/ Trim

SpecNorm == InitNorm /\ [][NextNorm]_vars

\* the keys are lowercase letters and digits, in words separated by one space
IsKey(t) ==
    /\ \A i \in 1..Len(t) : t[i] \in Digits \cup LowerLetters \cup {" "}
    /\ t # <<>> => t[1] # " " /\ t[Len(t)] # " "
    /\ \A i \in 1..(Len(t) - 1) : ~(t[i] = " " /\ t[i + 1] = " ")

\* C8: normalize is idempotent, and insensitive to letter case, to runs of
\* non-alphanumeric characters and to leading and trailing whitespace: strings
\* that differ only in those respects have one key, as "  H-R   Host " and
\* "h r host".
C8_NormalizeIdempotent ==
    /\ normalize(nkey) = nkey
    /\ normalize(nkey0) = nkey0
    /\ nkey = nkey0
    /\ IsKey(nkey)
    /\ normalize(<<" "," ","H","-","R"," "," "," ","H","o","s","t"," ">>)
         = normalize(<<"h"," ","r"," ","h","o","s","t">>)

\* a string that differs from the first in case and in a run has its key
C8_Witness ==
    /\ edits = 2
    /\ Len(s) > Len(s0)
    /\ \E i \in 1..Len(s0) : s0[i] \in UpperLetters /\ s[i] \in LowerLetters
    /\ \E i \in 1..(Len(s) - 1) : s[i] \in NonAlnum /\ s[i + 1] \in NonAlnum
    /\ nkey # s
    /\ nkey # <<>>

(***************************** read_pos_csv ********************************)
\* the texts the cells of a file are drawn from
NameTexts == {Al, <<>>, Blank, <<"N","A">>}
RoleTexts == {"Role", "role"}
HoursTexts == { <<"3","7",".","5"," ","h","r","s">>, <<"a","b","c">>, <<>>,
                <<"1",".","2",".","3">>, <<"-","5">> }

\* the data rows of a file, below the banner line and the header line
FileRows == [Name : NameTexts, B : RoleTexts, Hours : HoursTexts]
Files == UNION {[1..m -> FileRows] : m \in 0..MaxCsvRows}

\* the texts read_csv takes for a missing value unless keep_default_na=False
NaTexts == { <<>>, <<"N","A">>, <<"N","/","A">>, <<"n","/","a">>, <<"N","a","N">>,
             <<"n","a","n">>, <<"N","U","L","L">>, <<"n","u","l","l">>,
             <<"N","o","n","e">>, <<"#","N","/","A">>, <<"<","N","A",">">> }

\* a cell of the DataFrame: NaN or a text
Cell(text) == [na |-> text \in NaTexts, s |-> IF text \in NaTexts THEN <<>> ELSE text]

\* a number: m / 10^d
NumNaN == [na |-> TRUE, m |-> 0, d |-> 0]

DigitSeq == <<"0","1","2","3","4","5","6","7","8","9">>
DigitValue(c) == (CHOOSE i \in 1..10 : DigitSeq[i] = c) - 1

\* a slip: the text is converted as it stands
StripNothing(text) == text

\* str.replace(r'[^\d.]', '', regex=True)
StripNonNumeric(text) == SelectSeq(text, LAMBDA c : c \in Digits \cup {"."})

RECURSIVE DigitsValue(_, _)
DigitsValue(text, acc) ==
    IF text = <<>> THEN acc
    ELSE DigitsValue(Tail(text),
                     IF Head(text) = "." THEN acc ELSE 10 * acc + DigitValue(Head(text)))

\* the position of the first dot, 0 when there is none
DotAt(text) ==
    IF \E i \in 1..Len(text) : text[i] = "."
    THEN CHOOSE i \in 1..Len(text) : text[i] = "." /\ \A j \in 1..(i - 1) : text[j] # "."
    ELSE 0

\* pd.to_numeric(text, errors='coerce'): digits with at most one dot
ToNumeric(text) ==
    LET dots == Cardinality({i \in 1..Len(text) : text[i] = "."})
        digits == Cardinality({i \in 1..Len(text) : text[i] \in Digits})
    IN  IF /\ \A i \in 1..Len(text) : text[i] \in Digits \cup {"."}
           /\ digits >= 1
           /\ dots <= 1
        THEN [na |-> FALSE, m |-> DigitsValue(text, 0),
              d |-> IF dots = 0 THEN 0 ELSE Len(text) - DotAt(text)]
        ELSE NumNaN

\* row.iloc[1] == "Role"
IsCutoff(row) == row.B = "Role"

\* a slip: one row too many is read
ReadRowsInclusive(rows, nrows) == SubSeq(rows, 1, Min(nrows + 1, Len(rows)))

\* read_csv(..., usecols=["Name", "Work Hours"], nrows=nrows)
ReadRows(rows, nrows) == SubSeq(rows, 1, Min(nrows, Len(rows)))

InitCsv ==
    /\ cpc = "scan"
    /\ file \in Files
    /\ idx = 0
    /\ cutoff_index = -1
    /\ df = <<>>
    /\ returned = <<>>
    /\ pc = "off"
    /\ csv_data = "None"
    /\ week_choice = ""
    /\ template = [status |-> "missing", sheet |-> TplEmpty]
    /\ ws = <<>>
    /\ reg_col = ""
    /\ ot_col = ""
    /\ name_to_row = <<>>
    /\ processed = {}
    /\ n = 0
    /\ last = NoRow
    /\ writes = <<>>
    /\ result = Pending
    /\ saved = FALSE
    /\ raised = "none"
    /\ s0 = <<>>
    /\ s = <<>>
    /\ nkey0 = <<>>
    /\ nkey = <<>>
    /\ edits = 0

\* one iteration of the loop over full_df.iterrows(), index idx
ScanRow ==
    /\ cpc = "scan"
    /\ idx < Len(file)
    /\ IF IsCutoff(file[idx + 1])
       THEN /\ cutoff_index' = idx
            /\ cpc' = "read"
            /\ UNCHANGED idx
       ELSE /\ idx' = idx + 1
            /\ UNCHANGED <<cutoff_index, cpc>>
    /\ UNCHANGED <<file, df, returned, pe_vars, norm_vars>>

\* the loop ended without a break: if cutoff_index == -1, all rows are taken
ScanEnd ==
    /\ cpc = "scan"
    /\ idx = Len(file)
    /\ cutoff_index' = IF cutoff_index = -1 THEN Len(file) ELSE cutoff_index
    /\ cpc' = "read"
    /\ UNCHANGED <<file, idx, df, returned, pe_vars, norm_vars>>

\* the second read_csv: the first cutoff_index rows, Name and Work Hours
ReadRelevant ==
    /\ cpc = "read"
    /\ LET rows == ReadRows(file, cutoff_index)
       IN  df' = [i \in 1..Len(rows) |->
                    [index |-> i - 1,
                     Name |-> Cell(rows[i].Name),
                     Hours |-> Cell(rows[i].Hours),
                     Num |-> NumNaN]]
    /\ cpc' = "clean"
    /\ UNCHANGED <<file, idx, cutoff_index, returned, pe_vars, norm_vars>>

\* the cleaning of 'Work Hours': a NaN stays NaN
CleanHours ==
    /\ cpc = "clean"
    /\ df' = [i \in 1..Len(df) |->
                [df[i] EXCEPT !.Num = IF df[i].Hours.na THEN NumNaN
                                      ELSE ToNumeric(StripNonNumeric(df[i].Hours.s))]]
    /\ cpc' = "drop"
    /\ UNCHANGED <<file, idx, cutoff_index, returned, pe_vars, norm_vars>>

\* df.dropna(subset=["Name", "Work Hours"], inplace=True); return df
DropNa ==
    /\ cpc = "drop"
    /\ df' = SelectSeq(df, LAMBDA r : ~r.Name.na /\ ~r.Num.na)
    /\ returned' = df'
    /\ cpc' = "done"
    /\ UNCHANGED <<file, idx, cutoff_index, pe_vars, norm_vars>>

NextCsv == ScanRow \/ ScanEnd \/ ReadRelevant \/ CleanHours \/ DropNa

SpecCsv == InitCsv /\ [][NextCsv]_vars

(***************************** read_pos_csv: properties ********************)
\* the text has a character that is not whitespace
NonBlank(text) == \E i \in 1..Len(text) : text[i] \notin Whitespace

\* the digits and dots of the text are no number: none at all, no digit, or
\* more than one dot
Unparseable(text) ==
    LET kept == SelectSeq(text, LAMBDA c : c \in Digits \cup {"."})
    IN  \/ \A i \in 1..Len(kept) : kept[i] = "."
        \/ \E i, j \in 1..Len(kept) : i < j /\ kept[i] = "." /\ kept[j] = "."

Hours375 == <<"3","7",".","5"," ","h","r","s">>

\* what holds of the returned rows whatever a blank name is
ReturnedRowsClean(named(_)) ==
    cpc = "done" =>
        /\ \A i \in 1..Len(returned) :
               LET r == returned[i]
                   src == file[r.index + 1]
               IN  /\ named(src.Name)
                   /\ r.Name = [na |-> FALSE, s |-> src.Name]
                   /\ ~Unparseable(src.Hours)
                   /\ ~r.Num.na /\ r.Num.m >= 0 /\ r.Num.d >= 0
                   /\ src.Hours = Hours375 => r.Num.m = 375 /\ r.Num.d = 1
                   /\ src.Hours = <<"-","5">> => r.Num.m = 5 /\ r.Num.d = 0
        /\ \A i, j \in 1..Len(returned) : i < j => returned[i].index < returned[j].index
        /\ \A i \in 1..Len(file) :
               (file[i].Name = <<>> \/ Unparseable(file[i].Hours)) => \A j \in 1..Len(returned) : returned[j].index # i - 1

\* C9 as stated: only rows with a non-blank name and a finite, non-negative
\* hours value are returned; a blank name or hours unparseable after the
\* stripping drop the row, "37.5 hrs" is kept as 37.5, file order is kept.
C9_AsStated == ReturnedRowsClean(NonBlank)

\* C9, amended: only rows with a non-empty name and a finite, non-negative
\* hours value are returned: an empty name (or one read_csv takes for a
\* missing value, as "NA") or hours unparseable after the stripping drop the
\* row, "37.5 hrs" is kept as 37.5 and file order is kept; a name of
\* whitespace only is not empty, and its row is returned.
C9_CleanRows ==
    /\ ReturnedRowsClean(LAMBDA text : text # <<>>)
    /\ cpc = "done" =>
           \A i \in 1..Len(file) :
               (/\ i <= cutoff_index
                /\ file[i].Name \in {Al, Blank}
                /\ file[i].Hours = Hours375)
               => \E j \in 1..Len(returned) :
                      /\ returned[j].index = i - 1
                      /\ returned[j].Num = [na |-> FALSE, m |-> 375, d |-> 1]

\* a "37.5 hrs" row was returned after a row with unparseable hours was dropped
C9_Witness ==
    /\ cpc = "done"
    /\ Len(file) = 2
    /\ file[1].Hours = <<"a","b","c">>
    /\ file[2].Hours = Hours375
    /\ Len(returned) = 1
    /\ returned[1].index = 1
    /\ returned[1].Num = [na |-> FALSE, m |-> 375, d |-> 1]

\* the data index of the first row with exactly "Role" in the second column,
\* the number of rows when there is none
FirstRole ==
    IF \E i \in 1..Len(file) : file[i].B = "Role"
    THEN (CHOOSE i \in 1..Len(file) :
             file[i].B = "Role" /\ \A j \in 1..(i - 1) : file[j].B # "Role") - 1
    ELSE Len(file)

\* C10: the data is cut at the first row whose second column is exactly
\* "Role": with that row at data index k, exactly the k rows before it are
\* usable and no row at or after index k is returned; without such a row all
\* rows are usable.
C10_CutAtRole ==
    /\ cpc \in {"clean", "drop"} =>
           /\ Len(df) = FirstRole
           /\ \A i \in 1..Len(df) :
                  df[i].index = i - 1 /\ df[i].Name = Cell(file[i].Name)
                  /\ df[i].Hours = Cell(file[i].Hours)
    /\ cpc \in {"read", "clean", "drop", "done"} => cutoff_index = FirstRole
    /\ cpc = "done" => \A i \in 1..Len(returned) : returned[i].index < FirstRole

\* a file was cut at a "Role" row that has a row before it
C10_Witness ==
    /\ cpc = "done"
    /\ Len(file) = 2
    /\ file[1].B = "role"
    /\ file[2].B = "Role"
    /\ cutoff_index = 1
    /\ Len(returned) = 1

====
